---- MODULE Spec2Model ----
(***************************************************************************)
(* Model of the two Streamlit applications of the repository:              *)
(*   - ollama/app.py: the PDF RAG playground (main and its helpers);       *)
(*   - llama3/generic_chatbot/app.py: the generic chatbot.                 *)
(* A Streamlit script is run top to bottom once per user interaction; the  *)
(* session state and the widget values survive from one run to the next.   *)
(* Strings that the code takes apart or joins (arXiv IDs, file names,      *)
(* paths) are sequences of tokens; "/" is the path separator.              *)
(***************************************************************************)
EXTENDS Integers, Sequences, FiniteSets, TLC

\* ---------------------------------------------------------------- bounds
MaxMsgs == 3      \* prompts are accepted while the chat log has room
MaxTemp == 2      \* a run starts while at most MaxTemp - 2 leaked directories exist

\* ------------------------------------------------------------ value sets
None     == "None"
Empty    == << >>
Sep      == "/"
PdfExt   == ".pdf"

\* arXiv IDs the user can type: a new-style ID and an old-style one
\* ("hep-th/9901001" has a slash in it)
ArxivIds   == { <<"a">>, <<"h", Sep, "a">> }
\* bodies an HTTP response can carry
Contents   == { "X" }
\* uploaded files, named by their content
Uploads    == { "A", "B" }
Prompts    == { "q1", "q2" }
StatusCodes == { 200, 404 }
\* names tempfile.mkdtemp() can give a directory
TempNames  == { "t1", "t2", "t3", "t4", "t5", "t6" }
Root       == << Sep >>

\* --------------------------------------------------------------- state
VARIABLES
    keys,              \* keys present in st.session_state
    messages,          \* st.session_state["messages"]
    vector_db,         \* st.session_state["vector_db"]: None or the document it was built from
    pdf_pages,         \* st.session_state["pdf_pages"]: the document whose pages it holds
    ss_file_upload,    \* st.session_state["file_upload"]
    arxiv_id,          \* value of the text_input widget
    file_upload,       \* value of the file_uploader widget
    delete_collection, \* value of the button in this run
    prompt,            \* value of chat_input in this run
    available_models,  \* whether ollama.list() names any model
    trigger,           \* what started the current run
    pc,                \* position of the current run of main()
    temp_dir,          \* main's temp_dir
    pdf_path,          \* main's pdf_path
    dirs,              \* temporary directories that exist on disk
    files,             \* files on disk: path -> bytes
    collection,        \* whether the Chroma collection "myRAG" exists
    response,          \* last HTTP response of download_arxiv_pdf
    download,          \* how the last call of download_arxiv_pdf ended
    failure,           \* the failure that happened in this run, if any
    ui,                \* st.error / st.success messages shown in this run
    escaped,           \* an exception left main() in this run
    asked,             \* process_question was called in this run
    cb_prompt,         \* chatbot: value of the text_input
    cb_send,           \* chatbot: Send was pressed in the last run
    cb_generated,      \* chatbot: text_generator was called in the last run
    cb_written         \* chatbot: what st.write showed in the last run

session == << keys, messages, vector_db, pdf_pages, ss_file_upload >>
widgets == << arxiv_id, file_upload, delete_collection, prompt, available_models, trigger >>
locals  == << temp_dir, pdf_path >>
disk    == << dirs, files >>
observed == << response, download, failure, ui, escaped, asked >>
chatbot == << cb_prompt, cb_send, cb_generated, cb_written >>
vars == << keys, messages, vector_db, pdf_pages, ss_file_upload, arxiv_id,
           file_upload, delete_collection, prompt, available_models, trigger,
           pc, temp_dir, pdf_path, dirs, files, collection, response,
           download, failure, ui, escaped, asked, cb_prompt, cb_send,
           cb_generated, cb_written >>

\* ------------------------------------------------------- path functions
\* os.path.join(a, b) for two components
Join(a, b) ==
    IF b # Empty /\ Head(b) = Sep THEN b
    ELSE IF a = Empty \/ a[Len(a)] = Sep THEN a \o b
    ELSE a \o << Sep >> \o b

\* index of the last separator of p, 0 when it has none
RECURSIVE LastSep(_, _)
LastSep(p, i) ==
    IF i = 0 THEN 0
    ELSE IF p[i] = Sep THEN i
    ELSE LastSep(p, i - 1)

\* drop the trailing separators of a path that is not made of separators only
RECURSIVE StripSeps(_)
StripSeps(p) ==
    IF p = Empty THEN p
    ELSE IF \A i \in 1..Len(p) : p[i] = Sep THEN p
    ELSE IF p[Len(p)] = Sep THEN StripSeps(SubSeq(p, 1, Len(p) - 1))
    ELSE p

\* os.path.dirname(p)
Dirname(p) == StripSeps(SubSeq(p, 1, LastSep(p, Len(p))))

\* the directory tempfile.mkdtemp() creates for name n
TempPath(n) == << Sep, n >>

\* whether p lies inside directory d
Inside(p, d) == Len(p) > Len(d) /\ SubSeq(p, 1, Len(d)) = d /\ p[Len(d) + 1] = Sep

\* open(path, "wb") succeeds when the parent directory exists
CanCreate(path) == Dirname(path) \in dirs \cup { Root } /\ path \notin dirs

\* files after open(path, "wb").write(bytes)
WriteFile(path, bytes) ==
    [ p \in DOMAIN files \cup { path } |-> IF p = path THEN bytes ELSE files[p] ]

\* files after shutil.rmtree(d)
RmtreeFiles(d) ==
    [ p \in { q \in DOMAIN files : ~Inside(q, d) } |-> files[p] ]

\* tempfile.mkdtemp(): a directory that did not exist
FreeTemps == { n \in TempNames : TempPath(n) \notin dirs }
Mkdtemp == TempPath(CHOOSE n \in FreeTemps : TRUE)

\* ------------------------------------------------------------- messages
UserMessage(p) == [ role |-> "user", content |-> p ]
\* what process_question returns: the model's answer to question q; the
\* text of the answer is the model's, so only the question it answers is kept
Answer(q, db) == << q, "answer" >>
AssistantMessage(r) == [ role |-> "assistant", content |-> r ]

ErrDownload == "Error downloading or processing the PDF"
ErrQuestion == "Error processing the question"
ErrNoPdf    == "Please upload a PDF file first."
ErrNoDb     == "No vector database found to delete."
OkDeleted   == "Collection and temporary files deleted successfully."

NoResponse == [ status |-> 0, content |-> None ]

\* ----------------------------------------------------------------- Init
\* The page has just been opened: the session state is empty, the widgets
\* hold their defaults and the first run of main() is about to start.
Init ==
    /\ keys = {}
    /\ messages = << >>
    /\ vector_db = None
    /\ pdf_pages = None
    /\ ss_file_upload = None
    /\ arxiv_id = Empty
    /\ file_upload = None
    /\ delete_collection = FALSE
    /\ prompt = None
    /\ available_models \in BOOLEAN
    /\ trigger = "initial"
    /\ pc = "init"
    /\ temp_dir = Empty
    /\ pdf_path = Empty
    /\ dirs = {}
    /\ files = << >>
    /\ collection = FALSE
    /\ response = NoResponse
    /\ download = "none"
    /\ failure = "none"
    /\ ui = {}
    /\ escaped = FALSE
    /\ asked = FALSE
    /\ cb_prompt = Empty
    /\ cb_send = FALSE
    /\ cb_generated = FALSE
    /\ cb_written = Empty

\* ------------------------------------------------- the start of a run
\* A run starts with fresh locals and nothing shown yet.
StartRun(why) ==
    /\ Cardinality(dirs) + 2 <= MaxTemp
    /\ trigger' = why
    /\ pc' = "init"
    /\ UNCHANGED available_models
    /\ temp_dir' = Empty
    /\ pdf_path' = Empty
    /\ response' = NoResponse
    /\ download' = "none"
    /\ failure' = "none"
    /\ ui' = {}
    /\ escaped' = FALSE
    /\ asked' = FALSE
    /\ UNCHANGED << session, disk, collection, chatbot >>

\* the user edits the arXiv ID text input
UserTypesArxivId ==
    /\ pc = "done"
    /\ \E id \in ArxivIds \cup { Empty } :
        /\ id # arxiv_id
        /\ arxiv_id' = id
    /\ delete_collection' = FALSE
    /\ prompt' = None
    /\ UNCHANGED file_upload
    /\ StartRun("user")

\* the user uploads a file, replaces it or removes it
UserUploadsFile ==
    /\ pc = "done"
    /\ \E f \in Uploads \cup { None } :
        /\ f # file_upload
        /\ file_upload' = f
    /\ delete_collection' = FALSE
    /\ prompt' = None
    /\ UNCHANGED arxiv_id
    /\ StartRun("user")

\* the user presses "Delete collection"
UserClicksDelete ==
    /\ pc = "done"
    /\ delete_collection' = TRUE
    /\ prompt' = None
    /\ UNCHANGED << arxiv_id, file_upload >>
    /\ StartRun("user")

\* the user submits a prompt in the chat input
UserSubmitsPrompt ==
    /\ pc = "done"
    /\ Len(messages) + 2 <= MaxMsgs
    /\ \E p \in Prompts : prompt' = p
    /\ delete_collection' = FALSE
    /\ UNCHANGED << arxiv_id, file_upload >>
    /\ StartRun("user")

\* the user moves the zoom slider or picks another model
UserTouchesOtherWidget ==
    /\ pc = "done"
    /\ delete_collection' = FALSE
    /\ prompt' = None
    /\ UNCHANGED << arxiv_id, file_upload >>
    /\ StartRun("user")

\* st.rerun(): the script is run again with the widgets as they are
Rerun ==
    /\ pc = "rerun"
    /\ delete_collection' = FALSE
    /\ prompt' = None
    /\ UNCHANGED << arxiv_id, file_upload >>
    /\ StartRun("rerun")

\* ------------------------------------------------------ main(): set-up
\* lines 177-181: the session keys main() creates when they are missing
MainInit ==
    /\ pc = "init"
    /\ keys' = keys \cup { "messages", "vector_db" }
    /\ messages' = IF "messages" \in keys THEN messages ELSE << >>
    /\ vector_db' = IF "vector_db" \in keys THEN vector_db ELSE None
    /\ pc' = "input"
    /\ UNCHANGED << pdf_pages, ss_file_upload, widgets, locals, disk,
                    collection, observed, chatbot >>

\* main()'s except clause of the arXiv branch (lines 202-203)
CaughtInArxivBranch(kind) ==
    /\ failure' = kind
    /\ ui' = ui \cup { ErrDownload }
    /\ pc' = "show"

\* ------------------------------------------------ main(): arXiv branch
\* line 196: temp_dir = tempfile.mkdtemp()
MainMkdtemp ==
    /\ pc = "input"
    /\ arxiv_id # Empty
    /\ temp_dir' = Mkdtemp
    /\ dirs' = dirs \cup { Mkdtemp }
    /\ pc' = "download"
    /\ UNCHANGED << session, widgets, pdf_path, files, collection, observed, chatbot >>

\* the path download_arxiv_pdf writes to (line 61)
PdfPath(id, save_dir) == Join(save_dir, id \o << PdfExt >>)

\* line 197 and download_arxiv_pdf (lines 58-66)
DownloadArxivPdf ==
    /\ pc = "download"
    /\ \E status \in StatusCodes, body \in Contents :
        /\ response' = [ status |-> status, content |-> body ]
        /\ IF status = 200
           THEN IF CanCreate(PdfPath(arxiv_id, temp_dir))
                THEN /\ files' = WriteFile(PdfPath(arxiv_id, temp_dir), body)
                     /\ pdf_path' = PdfPath(arxiv_id, temp_dir)
                     /\ download' = "returned"
                     /\ pc' = "create"
                     /\ UNCHANGED << failure, ui >>
                ELSE \* open() raises FileNotFoundError
                     /\ download' = "raised"
                     /\ CaughtInArxivBranch("open")
                     /\ UNCHANGED << files, pdf_path >>
           ELSE /\ download' = "raised"
                /\ CaughtInArxivBranch("http")
                /\ UNCHANGED << files, pdf_path >>
    /\ UNCHANGED << session, widgets, temp_dir, dirs, collection, escaped,
                    asked, chatbot >>

\* line 198 and create_vector_db(pdf_path=pdf_path) (lines 79-104)
CreateVectorDbFromPath ==
    /\ pc = "create"
    /\ \/ \* the document is loaded, split and embedded; temp_dir is removed
          /\ vector_db' = files[pdf_path]
          /\ collection' = TRUE
          /\ pc' = "extract"
          /\ UNCHANGED << dirs, failure, ui >>
       \/ \* the loader or the embedding call raises before line 102
          /\ dirs' = dirs \cup { Mkdtemp }
          /\ collection' \in { collection, TRUE }
          /\ CaughtInArxivBranch("loader")
          /\ UNCHANGED vector_db
    /\ UNCHANGED << keys, messages, pdf_pages, ss_file_upload, widgets,
                    locals, files, response, download, escaped, asked, chatbot >>

\* lines 199-201: the page images, then shutil.rmtree(temp_dir)
ExtractPagesFromPath ==
    /\ pc = "extract"
    /\ \/ /\ pdf_pages' = files[pdf_path]
          /\ keys' = keys \cup { "pdf_pages" }
          /\ dirs' = dirs \ { temp_dir }
          /\ files' = RmtreeFiles(temp_dir)
          /\ pc' = "show"
          /\ UNCHANGED << failure, ui >>
       \/ \* pdfplumber raises
          /\ CaughtInArxivBranch("extract")
          /\ UNCHANGED << pdf_pages, keys, dirs, files >>
    /\ UNCHANGED << messages, vector_db, ss_file_upload, widgets, locals,
                    collection, response, download, escaped, asked, chatbot >>

\* ----------------------------------------------- main(): upload branch
\* the file create_vector_db writes the upload to (line 83)
UploadPath(dir, f) == Join(dir, << f, PdfExt >>)

\* lines 206-208; create_vector_db(file_upload=file_upload) is called only
\* while the session holds no vector DB, and nothing catches what it raises
MainUploadCreate ==
    /\ pc = "input"
    /\ arxiv_id = Empty
    /\ file_upload # None
    /\ ss_file_upload' = file_upload
    /\ keys' = keys \cup { "file_upload" }
    /\ IF vector_db = None
       THEN \/ \* the upload is written, loaded and embedded; temp_dir is removed
               /\ vector_db' = WriteFile(UploadPath(Mkdtemp, file_upload), file_upload)
                                    [UploadPath(Mkdtemp, file_upload)]
               /\ collection' = TRUE
               /\ pc' = "upload_extract"
               /\ UNCHANGED << disk, failure, escaped >>
            \/ \* the loader or the embedding call raises before line 102
               /\ dirs' = dirs \cup { Mkdtemp }
               /\ files' = WriteFile(UploadPath(Mkdtemp, file_upload), file_upload)
               /\ collection' \in { collection, TRUE }
               /\ failure' = "loader"
               /\ escaped' = TRUE
               /\ pc' = "done"
               /\ UNCHANGED vector_db
       ELSE /\ pc' = "upload_extract"
            /\ UNCHANGED << vector_db, collection, disk, failure, escaped >>
    /\ UNCHANGED << messages, pdf_pages, widgets, locals, response, download,
                    ui, asked, chatbot >>

\* lines 209-210
MainUploadExtract ==
    /\ pc = "upload_extract"
    /\ \/ /\ pdf_pages' = file_upload
          /\ keys' = keys \cup { "pdf_pages" }
          /\ pc' = "show"
          /\ UNCHANGED << failure, escaped >>
       \/ \* pdfplumber raises
          /\ failure' = "extract"
          /\ escaped' = TRUE
          /\ pc' = "done"
          /\ UNCHANGED << pdf_pages, keys >>
    /\ UNCHANGED << messages, vector_db, ss_file_upload, widgets, locals, disk,
                    collection, response, download, ui, asked, chatbot >>

\* neither an arXiv ID nor an upload
MainNoDocument ==
    /\ pc = "input"
    /\ arxiv_id = Empty
    /\ file_upload = None
    /\ pc' = "show"
    /\ UNCHANGED << session, widgets, locals, disk, collection, observed, chatbot >>

\* -------------------------------------------------- main(): the button
\* the keys delete_vector_db pops (lines 159-161)
PoppedKeysButPages == { "file_upload", "vector_db" }
PoppedKeys == { "pdf_pages", "file_upload", "vector_db" }

\* a popped key has no value any more
AfterPop(key, value) == IF key \in PoppedKeys THEN None ELSE value

\* lines 224-225 and delete_vector_db (lines 155-167)
DeleteVectorDb ==
    /\ pc = "show"
    /\ delete_collection
    /\ IF vector_db # None
       THEN /\ collection' = FALSE
            /\ keys' = keys \ PoppedKeys
            /\ pdf_pages' = AfterPop("pdf_pages", pdf_pages)
            /\ ss_file_upload' = AfterPop("file_upload", ss_file_upload)
            /\ vector_db' = AfterPop("vector_db", vector_db)
            /\ ui' = ui \cup { OkDeleted }
            /\ pc' = "rerun"
       ELSE /\ ui' = ui \cup { ErrNoDb }
            /\ pc' = "chat"
            /\ UNCHANGED << keys, pdf_pages, ss_file_upload, vector_db, collection >>
    /\ UNCHANGED << messages, widgets, locals, disk, response, download,
                    failure, escaped, asked, chatbot >>

\* line 224 when the button was not pressed
MainNoDelete ==
    /\ pc = "show"
    /\ ~delete_collection
    /\ pc' = "chat"
    /\ UNCHANGED << session, widgets, locals, disk, collection, observed, chatbot >>

\* ---------------------------------------------------- main(): the chat
\* line 237
NewestFirst(msgs, p) == << UserMessage(p) >> \o msgs
WithUserMessage(msgs, p) == Append(msgs, UserMessage(p))

\* line 239
HasVectorDbOrNot == TRUE
HasVectorDb == vector_db # None

\* lines 235-249
MainChat ==
    /\ pc = "chat"
    /\ IF prompt # None
       THEN IF HasVectorDb
            THEN IF available_models
                 THEN \/ \* process_question returns
                         /\ asked' = TRUE
                         /\ messages' = Append(WithUserMessage(messages, prompt),
                                               AssistantMessage(Answer(prompt, vector_db)))
                         /\ UNCHANGED << failure, ui >>
                      \/ \* process_question raises
                         /\ asked' = TRUE
                         /\ messages' = WithUserMessage(messages, prompt)
                         /\ failure' = "question"
                         /\ ui' = ui \cup { ErrQuestion }
                 ELSE \* selected_model was never bound (line 183): NameError
                      /\ messages' = WithUserMessage(messages, prompt)
                      /\ failure' = "question"
                      /\ ui' = ui \cup { ErrQuestion }
                      /\ UNCHANGED asked
            ELSE /\ messages' = WithUserMessage(messages, prompt)
                 /\ ui' = ui \cup { ErrNoPdf }
                 /\ UNCHANGED << asked, failure >>
       ELSE UNCHANGED << messages, asked, failure, ui >>
    /\ pc' = "done"
    /\ UNCHANGED << keys, vector_db, pdf_pages, ss_file_upload, widgets, locals,
                    disk, collection, response, download, escaped, chatbot >>

\* ------------------------------------------------- the generic chatbot
ChatTexts == { Empty, << "hi" >> }

\* text_generator(prompt)[0]["generated_text"]
Generated(text) == text \o << "..." >>

\* line 25
SendAlwaysGenerates(text) == TRUE
SendGenerates(text) == text # Empty

rag == << session, widgets, pc, locals, disk, collection, observed >>

\* a run of the chatbot's main() after the user edited the text input
ChatbotEdit ==
    /\ \E text \in ChatTexts :
        /\ text # cb_prompt
        /\ cb_prompt' = text
    /\ cb_send' = FALSE
    /\ cb_generated' = FALSE
    /\ cb_written' = Empty
    /\ UNCHANGED rag

\* a run of the chatbot's main() after the user pressed Send (lines 24-27)
ChatbotSend ==
    /\ cb_send' = TRUE
    /\ cb_generated' = SendGenerates(cb_prompt)
    /\ cb_written' = IF SendGenerates(cb_prompt) THEN Generated(cb_prompt) ELSE Empty
    /\ UNCHANGED cb_prompt
    /\ UNCHANGED rag

\* ------------------------------------------------------------- the spec
Next ==
    \/ UserTypesArxivId
    \/ UserUploadsFile
    \/ UserClicksDelete
    \/ UserSubmitsPrompt
    \/ UserTouchesOtherWidget
    \/ Rerun
    \/ MainInit
    \/ MainMkdtemp
    \/ DownloadArxivPdf
    \/ CreateVectorDbFromPath
    \/ ExtractPagesFromPath
    \/ MainUploadCreate
    \/ MainUploadExtract
    \/ MainNoDocument
    \/ DeleteVectorDb
    \/ MainNoDelete
    \/ MainChat
    \/ ChatbotEdit
    \/ ChatbotSend

Spec == Init /\ [][Next]_vars

TypeOK ==
    /\ keys \subseteq { "messages", "vector_db", "pdf_pages", "file_upload" }
    /\ vector_db \in { None } \cup Contents \cup Uploads
    /\ pdf_pages \in { None } \cup Contents \cup Uploads
    /\ pc \in { "init", "input", "download", "create", "extract",
                "upload_extract", "show", "rerun", "chat", "done" }
    /\ Len(messages) <= MaxMsgs

\* ---------------------------------------------------------- properties
Errors == { ErrDownload, ErrQuestion, ErrNoPdf, ErrNoDb }
SessionDocKeys == { "pdf_pages", "file_upload", "vector_db" }

IsPrefix(a, b) == Len(a) <= Len(b) /\ SubSeq(b, 1, Len(a)) = a

\* every assistant entry directly follows the user entry it answers
AnswersFollowQuestions(msgs) ==
    \A i \in 1..Len(msgs) :
        msgs[i].role = "assistant" =>
            /\ i > 1
            /\ msgs[i - 1].role = "user"
            /\ msgs[i].content[1] = msgs[i - 1].content

\* C1: every failure in a run of main() (failed download, exception while
\* building the vector DB or extracting the pages, exception while
\* answering) ends in st.error and never in an exception leaving main().
C1_FailuresAreShown ==
    failure # "none" => (~escaped /\ ui \cap Errors # {})

\* C2: when delete_vector_db is called with a vector DB, the collection is
\* deleted, the keys pdf_pages, file_upload and vector_db leave the session
\* state before the rerun is requested, and the messages stay as they were.
C2_DeleteClearsSession ==
    [][ (pc = "show" /\ pc' # "show" /\ delete_collection /\ vector_db # None) =>
            /\ pc' = "rerun"
            /\ ~collection'
            /\ keys' \cap SessionDocKeys = {}
            /\ "messages" \in keys'
            /\ messages' = messages ]_vars

C2_Witness ==
    /\ pc = "rerun"
    /\ arxiv_id = Empty
    /\ file_upload # None
    /\ Len(messages) > 0
    /\ OkDeleted \in ui

\* C3: no generation call without a prompt: the chatbot's Send with an
\* empty text input never calls text_generator, and a run of the RAG
\* main() whose chat_input returned nothing neither calls process_question
\* nor appends a message.
C3_NoPromptNoGeneration ==
    [][ /\ (cb_send' /\ cb_prompt' = Empty) => ~cb_generated'
        /\ (pc = "chat" /\ pc' = "done" /\ prompt = None) =>
               (~asked' /\ messages' = messages) ]_vars

C3_Witness ==
    /\ cb_send
    /\ cb_prompt = Empty
    /\ ~cb_generated
    /\ pc = "done"
    /\ prompt = None
    /\ vector_db # None
    /\ ~asked

\* C4: every directory made by tempfile.mkdtemp() is gone when the run of
\* main() that made it has finished, whether it succeeded or failed.
C4_TempDirsRemoved ==
    pc = "done" => dirs = {}

\* C5: after a run of main() that ends without error with a document
\* supplied, the session's vector_db is the collection built from the
\* document supplied now.
C5_VectorDbOfSuppliedDocument ==
    (pc = "done" /\ failure = "none" /\ ~escaped /\ ui \cap Errors = {}) =>
        /\ arxiv_id # Empty => vector_db = response.content
        /\ (arxiv_id = Empty /\ file_upload # None) => vector_db = file_upload

\* C6: with status 200 download_arxiv_pdf returns save_dir/<arxiv_id>.pdf and
\* that file holds response.content; with any other status it raises and
\* writes no file.
C6_DownloadWritesBody ==
    download # "none" =>
        IF response.status = 200
        THEN /\ download = "returned"
             /\ pdf_path = temp_dir \o << Sep >> \o arxiv_id \o << PdfExt >>
             /\ pc = "create" =>
                    /\ pdf_path \in DOMAIN files
                    /\ files[pdf_path] = response.content
        ELSE /\ download = "raised"
             /\ \A p \in DOMAIN files : ~Inside(p, temp_dir)

\* C7: the message list is append-only: a step never removes, changes or
\* reorders an entry; a run appends at most a user entry followed by at
\* most one assistant entry; every assistant entry directly follows the
\* user entry whose prompt produced it.
C7_MessagesAppendOnly ==
    [][ /\ IsPrefix(messages, messages')
        /\ Len(messages') <= Len(messages) + 2
        /\ messages' # messages => (pc = "chat" /\ pc' = "done")
        /\ Len(messages') > Len(messages) =>
               messages'[Len(messages) + 1] = UserMessage(prompt)
        /\ Len(messages') = Len(messages) + 2 =>
               messages'[Len(messages) + 2].role = "assistant"
        /\ AnswersFollowQuestions(messages') ]_vars

C7_Witness ==
    /\ pc = "done"
    /\ Len(messages) = 3
    /\ messages[1].role = "user"
    /\ messages[2].role = "user"
    /\ messages[3].role = "assistant"
    /\ messages[2].content # messages[1].content

\* C8: after Delete collection with a vector DB present, the rerun that
\* delete_vector_db asks for ends with no vector DB and no pages: it does
\* not rebuild the collection from what the input widgets still hold.
C8_DeletedStaysDeleted ==
    (pc = "done" /\ trigger = "rerun" /\ failure = "none") =>
        (vector_db = None /\ "pdf_pages" \notin keys)

\* C9: process_question is called only with a vector DB; a prompt that
\* arrives while vector_db is None appends the user entry, shows 'Please
\* upload a PDF file first.' and appends no assistant entry.
C9_AnswerOnlyWithVectorDb ==
    [][ /\ asked' => vector_db' # None
        /\ (pc = "chat" /\ pc' = "done" /\ prompt # None /\ vector_db = None) =>
               /\ messages' = Append(messages, UserMessage(prompt))
               /\ ErrNoPdf \in ui'
               /\ ~asked' ]_vars

C9_Witness ==
    /\ pc = "done"
    /\ prompt # None
    /\ vector_db = None
    /\ ErrNoPdf \in ui
    /\ Len(messages) = 2
    /\ messages[2] = UserMessage(prompt)

\* C10: at the end of every run the session's vector_db and pdf_pages
\* describe the same document, or both are missing.
C10_VectorDbMatchesPages ==
    pc = "done" =>
        \/ vector_db = None /\ "pdf_pages" \notin keys
        \/ "pdf_pages" \in keys /\ vector_db = pdf_pages
====
